---- MODULE Spec2Model ----
(***************************************************************************)
(* Model of the forecast service (src/main.rs): the geocode cache-aside    *)
(* resolver get_lat_long over the cities table, the geocoding client       *)
(* fetch_lat_long, the /weather handler, and the /stats handler with its   *)
(* User extractor and get_last_cities.                                     *)
(*                                                                         *)
(* Every task is an independently scheduled async task.  A task takes one  *)
(* step per .await of the code it runs: the SELECT, the geocoding GET, the *)
(* INSERT, the forecast GET, the SELECT of the last cities.  What the       *)
(* database and the two upstream services answer is the environment's      *)
(* choice at each step.                                                    *)
(***************************************************************************)
EXTENDS Integers, Sequences, FiniteSets, TLC

\* ---------------------------------------------------------------- bounds
NumTasks == 2
MaxCalls == 2

Tasks == 1..NumTasks
Names == {"A", "B"}
\* f64 pairs (latitude, longitude), written as the integers they stand for
Coords == {<<48, 2>>, <<1, 2>>}

VARIABLES
    cities,      \* the cities table: rows in id order (id SERIAL = position)
    pc,          \* each task's position: the await it is suspended at
    op,          \* the function the task runs: "get_lat_long" or "weather"
    name,        \* the task's city-name argument
    lat_long,    \* the task's local lat_long once fetch_lat_long returned Ok
    result,      \* what the task's function returned
    geo,         \* observation: the geocoding answer the task's call received
    trace,       \* observation: the I/O operations the task's call performed
    calls,       \* number of calls started so far
    insert_failures, \* observation: failed INSERTs so far, per city name
    response,    \* the HTTP response a handler task produced
    auth,        \* the Authorization header of a /stats request
    failed       \* observation: names for which a get_lat_long call returned an
                 \* error of its SELECT or of fetch_lat_long

vars == <<cities, pc, op, name, lat_long, result, geo, trace, calls, insert_failures,
          response, auth, failed>>

None == [some |-> FALSE]
Some(v) == [some |-> TRUE, val |-> v]

Ok(v) == [ok |-> TRUE, val |-> v]
Err(e) == [ok |-> FALSE, err |-> e]

\* struct LatLong { latitude, longitude }
LatLong(c) == [latitude |-> c[1], longitude |-> c[2]]

\* the error values that reach a caller through `?`
SqlxError == "sqlx::Error"
ReqwestError == "reqwest::Error"
NoResults == "No results found"

\* ------------------------------------------------------------ environment
\* every ranking of candidates from S: the sequences over S without repetition,
\* the empty one included
Rankings(S) ==
    {r \in UNION {[1..k -> S] : k \in 0..Cardinality(S)} :
        \A i, j \in DOMAIN r : r[i] = r[j] => i = j}

\* what `reqwest::get(..).await?.json::<GeoResponse>().await?` can yield:
\* a transport/decode error, or a GeoResponse with its results vector
GeoAnswers == {Err(ReqwestError)} \cup
              {Ok([results |-> r]) : r \in Rankings({LatLong(c) : c \in Coords})}

\* what the forecast GET can yield: an error, or a WeatherResponse whose hourly
\* vectors need not have the same length
WeatherBodies == {[time |-> <<"t1", "t2">>, temperature_2m |-> <<10, 11>>],
                  [time |-> <<"t1", "t2">>, temperature_2m |-> <<10>>]}
WeatherAnswers == {Err(ReqwestError)} \cup {Ok(w) : w \in WeatherBodies}

\* ------------------------------------------------------------- the Store
\* rows of `cities` whose name column equals n
RowsNamed(rows, n) == {i \in 1..Len(rows) : rows[i].name = n}

\* SelectLatLong over rows that may have expired from the cache
SelectLatLongMayExpire(rows, n) ==
    {None} \cup {Some(rows[i].lat_long) : i \in RowsNamed(rows, n)}

\* SELECT lat AS latitude, long AS longitude FROM cities WHERE name = $1,
\* fetch_optional: None when no row matches, else one matching row (the query
\* has no ORDER BY: which one, when several match, is the database's choice)
SelectLatLong(rows, n) ==
    IF RowsNamed(rows, n) = {}
    THEN {None}
    ELSE {Some(rows[i].lat_long) : i \in RowsNamed(rows, n)}

\* InsertCity as an upsert: ON CONFLICT (name) DO UPDATE
InsertCityUpsert(rows, n, ll) ==
    IF RowsNamed(rows, n) = {}
    THEN Append(rows, [name |-> n, lat_long |-> ll])
    ELSE [i \in 1..Len(rows) |->
            IF rows[i].name = n THEN [name |-> n, lat_long |-> ll] ELSE rows[i]]

\* InsertCity with the statement executed twice
InsertCityTwice(rows, n, ll) ==
    Append(Append(rows, [name |-> n, lat_long |-> ll]), [name |-> n, lat_long |-> ll])

\* INSERT INTO cities (name, lat, long) VALUES ($1, $2, $3)
InsertCity(rows, n, ll) == Append(rows, [name |-> n, lat_long |-> ll])

\* ----------------------------------------------------------- pure helpers
\* FirstResult reporting an empty results vector as a request error
FirstResultAsRequestError(results) ==
    IF Len(results) >= 1 THEN Ok(results[1]) ELSE Err(ReqwestError)

\* FirstResult taking results.last() instead of results.get(0)
LastResult(results) ==
    IF Len(results) >= 1 THEN Ok(results[Len(results)]) ELSE Err(NoResults)

\* FirstResult with unwrap_or_default() in place of context(..)
FirstResultOrDefault(results) ==
    IF Len(results) >= 1 THEN Ok(results[1]) ELSE Ok(LatLong(<<0, 0>>))

\* response.results.get(0).cloned().context("No results found")
FirstResult(results) ==
    IF Len(results) >= 1 THEN Ok(results[1]) ELSE Err(NoResults)

\* FetchLatLong with a failed request replaced by a default coordinate
FetchLatLongOrDefault(answer) ==
    IF answer.ok THEN FirstResult(answer.val.results) ELSE Ok(LatLong(<<0, 0>>))

\* fetch_lat_long after its await: `?` on the answer, then the first result
FetchLatLong(answer) ==
    IF answer.ok THEN FirstResult(answer.val.results) ELSE answer

Min(a, b) == IF a <= b THEN a ELSE b

\* WeatherDisplay::new: zip of hourly.time and hourly.temperature_2m
WeatherDisplayNew(city, w) ==
    [city |-> city,
     forecasts |-> [i \in 1..Min(Len(w.time), Len(w.temperature_2m)) |->
                      [date |-> w.time[i], temperature |-> w.temperature_2m[i]]]]

\* ------------------------------------------------------------------ Init
\* a task that has not returned yet
Pending == [ok |-> FALSE, err |-> "pending"]

\* the table as the service finds it at startup: empty, or already holding a row
InitialTables == {<<>>, <<[name |-> "A", lat_long |-> LatLong(<<48, 2>>)]>>}

Init ==
    /\ cities \in InitialTables
    /\ pc = [t \in Tasks |-> "idle"]
    /\ op = [t \in Tasks |-> "none"]
    /\ name = [t \in Tasks |-> "A"]
    /\ lat_long = [t \in Tasks |-> None]
    /\ result = [t \in Tasks |-> Pending]
    /\ geo = [t \in Tasks |-> None]
    /\ trace = [t \in Tasks |-> <<>>]
    /\ calls = 0
    /\ insert_failures = [n \in Names |-> 0]
    /\ response = [t \in Tasks |-> None]
    /\ auth = [t \in Tasks |-> None]
    /\ failed = {}

\* a task starts running function f on city name n
Start(t, f, n, at) ==
    /\ pc[t] \in {"idle", "done"}
    /\ calls < MaxCalls
    /\ calls' = calls + 1
    /\ pc' = [pc EXCEPT ![t] = at]
    /\ op' = [op EXCEPT ![t] = f]
    /\ name' = [name EXCEPT ![t] = n]
    /\ lat_long' = [lat_long EXCEPT ![t] = None]
    /\ result' = [result EXCEPT ![t] = Pending]
    /\ geo' = [geo EXCEPT ![t] = None]
    /\ trace' = [trace EXCEPT ![t] = <<>>]
    /\ response' = [response EXCEPT ![t] = None]
    /\ auth' = [auth EXCEPT ![t] = None]
    /\ UNCHANGED <<cities, insert_failures, failed>>

\* the task's function returns r
Finish(t, r) ==
    /\ pc' = [pc EXCEPT ![t] = "done"]
    /\ result' = [result EXCEPT ![t] = r]

Did(t, e) == trace' = [trace EXCEPT ![t] = Append(@, e)]

\* ------------------------------------------------------- HTTP responses
INTERNAL_SERVER_ERROR == 500
UNAUTHORIZED == 401

\* IntoResponse telling "No results found" apart with a 404
IntoResponseByKind(r) ==
    IF r.ok
    THEN [status |-> 200, headers |-> {}, body |-> <<"rendered", r.val>>]
    ELSE [status |-> IF r.err = NoResults THEN 404 ELSE INTERNAL_SERVER_ERROR,
          headers |-> {},
          body |-> <<"Something went wrong: ", r.err>>]

\* a handler's Result as a response: Ok renders the template (status 200), Err
\* goes through AppError: (INTERNAL_SERVER_ERROR, "Something went wrong: {}")
IntoResponse(r) ==
    IF r.ok
    THEN [status |-> 200, headers |-> {}, body |-> <<"rendered", r.val>>]
    ELSE [status |-> INTERNAL_SERVER_ERROR, headers |-> {},
          body |-> <<"Something went wrong: ", r.err>>]

\* the handler returns r, which axum turns into the response
Respond(t, r) ==
    /\ Finish(t, r)
    /\ response' = [response EXCEPT ![t] = Some(IntoResponse(r))]

\* geocoding requests among the operations tr
ProviderAttempts(tr) == Cardinality({i \in DOMAIN tr : tr[i] \in {"get_ok", "get_err"}})

\* --------------------------------------------------------- get_lat_long
\* a caller invokes get_lat_long(pool, n)
CallGetLatLong(t, n) == Start(t, "get_lat_long", n, "select")

\* SelectFails with the error discarded (.ok().flatten()): on to the provider
SelectFailsBypassesCache(t) ==
    /\ pc[t] = "select"
    /\ Did(t, "select_err")
    /\ pc' = [pc EXCEPT ![t] = "fetch"]
    /\ UNCHANGED <<cities, op, name, lat_long, result, geo, calls, insert_failures, response, auth, failed>>

\* SelectDone without the early return: a found row is ignored
SelectDoneFallsThrough(t) ==
    /\ pc[t] = "select"
    /\ \E found \in SelectLatLong(cities, name[t]) :
         /\ Did(t, IF found.some THEN "select_hit" ELSE "select_miss")
         /\ pc' = [pc EXCEPT ![t] = "fetch"]
    /\ UNCHANGED <<cities, op, name, lat_long, result, geo, calls, insert_failures, response, auth, failed>>

\* SelectDone behind a negative cache: a name whose lookup failed before is
\* answered "No results found" without asking again
SelectDoneNegativeCache(t) ==
    /\ pc[t] = "select"
    /\ IF name[t] \in failed
       THEN /\ Did(t, "select_miss")
            /\ Finish(t, Err(NoResults))
       ELSE \E found \in SelectLatLong(cities, name[t]) :
              IF found.some
              THEN /\ Did(t, "select_hit")
                   /\ Finish(t, Ok(found.val))
              ELSE /\ Did(t, "select_miss")
                   /\ pc' = [pc EXCEPT ![t] = "fetch"]
                   /\ UNCHANGED result
    /\ UNCHANGED <<cities, op, name, lat_long, geo, calls, insert_failures, response, auth, failed>>

\* SelectDone under a per-name lock held from the SELECT to the INSERT
SelectDoneLocked(t) ==
    /\ pc[t] = "select"
    /\ \A u \in Tasks \ {t} : ~(pc[u] \in {"fetch", "insert"} /\ name[u] = name[t])
    /\ \E found \in SelectLatLong(cities, name[t]) :
         IF found.some
         THEN /\ Did(t, "select_hit")
              /\ Finish(t, Ok(found.val))
         ELSE /\ Did(t, "select_miss")
              /\ pc' = [pc EXCEPT ![t] = "fetch"]
              /\ UNCHANGED result
    /\ UNCHANGED <<cities, op, name, lat_long, geo, calls, insert_failures, response, auth, failed>>

\* lines 144-153: the SELECT; `?` returns its error, a row returns Ok at once
SelectFails(t) ==
    /\ pc[t] = "select"
    /\ Did(t, "select_err")
    /\ Finish(t, Err(SqlxError))
    /\ failed' = failed \cup {name[t]}
    /\ UNCHANGED <<cities, op, name, lat_long, geo, calls, insert_failures, response, auth>>

SelectDone(t) ==
    /\ pc[t] = "select"
    /\ \E found \in SelectLatLong(cities, name[t]) :
         IF found.some
         THEN /\ Did(t, "select_hit")
              /\ Finish(t, Ok(found.val))
         ELSE /\ Did(t, "select_miss")
              /\ pc' = [pc EXCEPT ![t] = "fetch"]
              /\ UNCHANGED result
    /\ UNCHANGED <<cities, op, name, lat_long, geo, calls, insert_failures, response, auth, failed>>

\* FetchDone with a failed geocoding request tried again
FetchDoneRetries(t) ==
    /\ pc[t] = "fetch"
    /\ \E answer \in GeoAnswers :
         /\ geo' = [geo EXCEPT ![t] = Some(answer)]
         /\ Did(t, IF answer.ok THEN "get_ok" ELSE "get_err")
         /\ LET r == FetchLatLong(answer) IN
            IF r.ok
            THEN /\ lat_long' = [lat_long EXCEPT ![t] = Some(r.val)]
                 /\ pc' = [pc EXCEPT ![t] = "insert"]
                 /\ UNCHANGED <<result, failed>>
            ELSE IF answer.ok \/ ProviderAttempts(trace[t]) >= 1
                 THEN /\ Finish(t, r)
                      /\ failed' = failed \cup {name[t]}
                      /\ UNCHANGED lat_long
                 ELSE UNCHANGED <<pc, result, failed, lat_long>>
    /\ UNCHANGED <<cities, op, name, calls, insert_failures, response, auth>>

\* line 155: fetch_lat_long(name).await?
FetchDone(t) ==
    /\ pc[t] = "fetch"
    /\ \E answer \in GeoAnswers :
         /\ geo' = [geo EXCEPT ![t] = Some(answer)]
         /\ Did(t, IF answer.ok THEN "get_ok" ELSE "get_err")
         /\ LET r == FetchLatLong(answer) IN
            IF r.ok
            THEN /\ lat_long' = [lat_long EXCEPT ![t] = Some(r.val)]
                 /\ pc' = [pc EXCEPT ![t] = "insert"]
                 /\ UNCHANGED <<result, failed>>
            ELSE /\ Finish(t, r)
                 /\ failed' = failed \cup {name[t]}
                 /\ UNCHANGED lat_long
    /\ UNCHANGED <<cities, op, name, calls, insert_failures, response, auth>>

\* lines 156-163: the INSERT; `?` returns its error, else Ok(lat_long)
InsertFails(t) ==
    /\ pc[t] = "insert"
    /\ Did(t, "insert_err")
    /\ insert_failures' = [insert_failures EXCEPT ![name[t]] = @ + 1]
    /\ Finish(t, Err(SqlxError))
    /\ UNCHANGED <<cities, op, name, lat_long, geo, calls, response, auth, failed>>

InsertDone(t) ==
    /\ pc[t] = "insert"
    /\ cities' = InsertCity(cities, name[t], lat_long[t].val)
    /\ Did(t, "insert_ok")
    /\ Finish(t, Ok(lat_long[t].val))
    /\ UNCHANGED <<op, name, lat_long, geo, calls, insert_failures, response, auth, failed>>

\* -------------------------------------------------------------- weather
\* GET /weather?city=n arrives
WeatherRequest(t, n) == Start(t, "weather", n, "w_geocode")

\* line 188: fetch_lat_long(&params.city).await?
WeatherGeocode(t) ==
    /\ pc[t] = "w_geocode"
    /\ \E answer \in GeoAnswers :
         /\ geo' = [geo EXCEPT ![t] = Some(answer)]
         /\ Did(t, IF answer.ok THEN "get_ok" ELSE "get_err")
         /\ LET r == FetchLatLong(answer) IN
            IF r.ok
            THEN /\ lat_long' = [lat_long EXCEPT ![t] = Some(r.val)]
                 /\ pc' = [pc EXCEPT ![t] = "w_forecast"]
                 /\ UNCHANGED <<result, response>>
            ELSE /\ Respond(t, r)
                 /\ UNCHANGED lat_long
    /\ UNCHANGED <<cities, op, name, calls, insert_failures, auth, failed>>

\* lines 189-190: fetch_weather(lat_long).await?, then WeatherDisplay::new
WeatherForecast(t) ==
    /\ pc[t] = "w_forecast"
    /\ \E answer \in WeatherAnswers :
         /\ Did(t, IF answer.ok THEN "forecast_ok" ELSE "forecast_err")
         /\ Respond(t, IF answer.ok
                       THEN Ok(WeatherDisplayNew(name[t], answer.val))
                       ELSE answer)
    /\ UNCHANGED <<cities, op, name, lat_long, geo, calls, insert_failures, auth, failed>>

\* ---------------------------------------------------------------- stats
\* An Authorization header value is written as the sequence of its pieces: the
\* literal texts such as the prefixes "Basic " and "Bearer ", and Base64Of(b)
\* for the base64 text of the bytes b.
Literal(text) == [kind |-> "literal", text |-> text]
Base64Of(b) == [kind |-> "base64", text |-> b]
Basic == Literal("Basic ")

\* the header values a /stats request may carry; None: no Authorization header
AuthHeaders ==
    {None,
     Some(<<Basic, Base64Of("forecast:forecast")>>),
     Some(<<Basic, Base64Of("forecast:wrong")>>),
     Some(<<Literal("Bearer "), Base64Of("forecast:forecast")>>),
     Some(<<Basic, Literal("%%%")>>),
     Some(<<Basic, Base64Of("<ff>")>>),
     Some(<<Basic, Basic, Base64Of("forecast:forecast")>>)}

\* auth_header.starts_with("Basic ")
StartsWith(h, p) == Len(h) >= 1 /\ h[1] = p

\* str::trim_start_matches: every leading repetition of p is removed
RECURSIVE TrimStartMatches(_, _)
TrimStartMatches(h, p) ==
    IF StartsWith(h, p) THEN TrimStartMatches(Tail(h), p) ELSE h

\* base64::decode(credentials).unwrap_or_default(): the bytes of a single
\* well-formed base64 text; no bytes for the empty text and for anything else
Base64DecodeOrDefault(credentials) ==
    IF Len(credentials) = 1 /\ credentials[1].kind = "base64"
    THEN credentials[1].text
    ELSE ""

\* from_utf8(&decoded).unwrap_or(""): "<ff>" stands for the byte 0xFF, which
\* is not UTF-8; the other byte strings used here are ASCII text
FromUtf8OrEmpty(decoded) == IF decoded = "<ff>" THEN "" ELSE decoded

\* lines 47-78: User::from_request_parts
FromRequestParts(header) ==
    IF /\ header.some
       /\ StartsWith(header.val, Basic)
       /\ FromUtf8OrEmpty(Base64DecodeOrDefault(TrimStartMatches(header.val, Basic)))
             = "forecast:forecast"
    THEN Ok("User")
    ELSE Err([status |-> UNAUTHORIZED,
              headers |-> {<<"WWW-Authenticate", "Basic realm=\"Please enter your credentials\"">>},
              body |-> "Unauthorized"])

\* LIMIT 10
StatsLimit == 10

\* the first k elements of s
Take(s, k) == SubSeq(s, 1, Min(k, Len(s)))

\* GetLastCities with ORDER BY id ASC
GetFirstCities(rows) ==
    Take([i \in 1..Len(rows) |-> rows[i].name], StatsLimit)

\* SELECT name FROM cities ORDER BY id DESC LIMIT 10
GetLastCities(rows) ==
    Take([i \in 1..Len(rows) |-> rows[Len(rows) + 1 - i].name], StatsLimit)

\* GET /stats arrives with Authorization header h; the User extractor runs
\* before the handler and has no await: a rejection is the response
StatsRequest(t, h) ==
    /\ pc[t] \in {"idle", "done"}
    /\ calls < MaxCalls
    /\ calls' = calls + 1
    /\ op' = [op EXCEPT ![t] = "stats"]
    /\ auth' = [auth EXCEPT ![t] = h]
    /\ lat_long' = [lat_long EXCEPT ![t] = None]
    /\ geo' = [geo EXCEPT ![t] = None]
    /\ trace' = [trace EXCEPT ![t] = <<>>]
    /\ LET user == FromRequestParts(h) IN
       IF user.ok
       THEN /\ pc' = [pc EXCEPT ![t] = "stats_select"]
            /\ result' = [result EXCEPT ![t] = Pending]
            /\ response' = [response EXCEPT ![t] = None]
       ELSE /\ pc' = [pc EXCEPT ![t] = "done"]
            /\ result' = [result EXCEPT ![t] = Err("Unauthorized")]
            /\ response' = [response EXCEPT ![t] = Some(user.err)]
    /\ UNCHANGED <<cities, name, insert_failures, failed>>

\* lines 216-227: get_last_cities(&pool).await?, then StatsTemplate { cities }
StatsSelect(t) ==
    /\ pc[t] = "stats_select"
    /\ \/ /\ Did(t, "list_err")
          /\ Respond(t, Err(SqlxError))
       \/ /\ Did(t, "list_ok")
          /\ Respond(t, Ok([cities |-> GetLastCities(cities)]))
    /\ UNCHANGED <<cities, op, name, lat_long, geo, calls, insert_failures, auth, failed>>

\* ------------------------------------------------------------------ Next
Next ==
    \E t \in Tasks :
        \/ \E n \in Names : CallGetLatLong(t, n)
        \/ SelectFails(t)
        \/ SelectDone(t)
        \/ FetchDone(t)
        \/ InsertFails(t)
        \/ InsertDone(t)
        \/ \E n \in Names : WeatherRequest(t, n)
        \/ WeatherGeocode(t)
        \/ WeatherForecast(t)
        \/ \E h \in AuthHeaders : StatsRequest(t, h)
        \/ StatsSelect(t)

Spec == Init /\ [][Next]_vars

\* -------------------------------------------------- sequential callers
\* at most one task is inside a call: no two calls overlap
OneAtATime == \A t, u \in Tasks : t # u => (pc[t] \in {"idle", "done"} \/ pc[u] \in {"idle", "done"})

\* no task other than t is inside a call
Alone(t) == \A u \in Tasks \ {t} : pc[u] \in {"idle", "done"}

NextSeq ==
    \E t \in Tasks :
        \/ \E n \in Names : Alone(t) /\ CallGetLatLong(t, n)
        \/ Alone(t) /\ SelectFails(t)
        \/ Alone(t) /\ SelectDone(t)
        \/ Alone(t) /\ FetchDone(t)
        \/ Alone(t) /\ InsertFails(t)
        \/ Alone(t) /\ InsertDone(t)
        \/ \E n \in Names : Alone(t) /\ WeatherRequest(t, n)
        \/ Alone(t) /\ WeatherGeocode(t)
        \/ Alone(t) /\ WeatherForecast(t)
        \/ \E h \in AuthHeaders : Alone(t) /\ StatsRequest(t, h)
        \/ Alone(t) /\ StatsSelect(t)

SpecSeq == Init /\ [][NextSeq]_vars

\* ------------------------------------------- tables left by earlier runs
\* two rows for one name, as two overlapping get_lat_long calls leave them
DupTable == <<[name |-> "A", lat_long |-> LatLong(<<48, 2>>)],
              [name |-> "A", lat_long |-> LatLong(<<1, 2>>)]>>

\* one row more than the LIMIT of get_last_cities, each with its own name
CityNames == <<"c01", "c02", "c03", "c04", "c05", "c06", "c07", "c08", "c09", "c10", "c11">>
LongTable == [i \in 1..Len(CityNames) |-> [name |-> CityNames[i], lat_long |-> LatLong(<<48, 2>>)]]

StatsTables == {DupTable, LongTable}

InitStats ==
    /\ cities \in StatsTables
    /\ pc = [t \in Tasks |-> "idle"]
    /\ op = [t \in Tasks |-> "none"]
    /\ name = [t \in Tasks |-> "A"]
    /\ lat_long = [t \in Tasks |-> None]
    /\ result = [t \in Tasks |-> Pending]
    /\ geo = [t \in Tasks |-> None]
    /\ trace = [t \in Tasks |-> <<>>]
    /\ calls = 0
    /\ insert_failures = [n \in Names |-> 0]
    /\ response = [t \in Tasks |-> None]
    /\ auth = [t \in Tasks |-> None]
    /\ failed = {}

SpecStats == InitStats /\ [][Next]_vars

\* ------------------------------------------------------------ observers
\* the task runs (or last ran) get_lat_long / the weather handler
Resolving(t) == op[t] = "get_lat_long"
Serving(t) == op[t] = "weather"
Listing(t) == op[t] = "stats"

\* how many of the operations in S the task's current call has performed
Ops(t, S) == Cardinality({i \in DOMAIN trace[t] : trace[t][i] \in S})

ProviderCalls(t) == Ops(t, {"get_ok", "get_err"})
InsertAttempts(t) == Ops(t, {"insert_ok", "insert_err"})

\* the coordinates the table holds for n
StoredFor(rows, n) == {rows[i].lat_long : i \in RowsNamed(rows, n)}

\* the geocoding call of the task answered with at least one candidate
GotCandidates(t) ==
    /\ geo[t].some
    /\ geo[t].val.ok
    /\ Len(geo[t].val.val.results) >= 1

Candidates(t) == geo[t].val.val.results

\* the task took a step of its call in this transition
Stepped(t) == trace'[t] # trace[t] /\ trace'[t] # <<>>

LastOp(t) == trace'[t][Len(trace'[t])]

\* ---------------------------------------------------------------- claims

\* C1 (cache-hit purity): whenever get_lat_long(name) looks up a name that has
\* a row in cities and the SELECT itself does not fail, the call returns at
\* once with Ok of a coordinate stored for that name, having performed the
\* SELECT and nothing else (no geocoding call, no INSERT), and cities is left
\* as it was; this holds for every such call, repeated or not.
CacheHitPurity ==
    [][\A t \in Tasks :
          ( /\ pc[t] = "select"
            /\ Stepped(t)
            /\ LastOp(t) # "select_err"
            /\ RowsNamed(cities, name[t]) # {} )
          => /\ pc'[t] = "done"
             /\ trace'[t] = <<"select_hit">>
             /\ result'[t].ok
             /\ result'[t].val \in StoredFor(cities, name[t])
             /\ geo'[t] = None
             /\ cities' = cities]_vars

\* two calls for the same stored name have both returned from a hit
CacheHitTwice ==
    \E t, u \in Tasks :
        /\ t # u
        /\ name[t] = name[u]
        /\ \A x \in {t, u} :
             /\ Resolving(x)
             /\ pc[x] = "done"
             /\ trace[x] = <<"select_hit">>
             /\ result[x].ok
             /\ result[x].val \in StoredFor(cities, name[x])

WriteFailureResilience ==
    \A t \in Tasks :
        ( /\ Resolving(t)
          /\ pc[t] = "done"
          /\ trace[t] = <<"select_miss", "get_ok", "insert_err">> )
        => result[t] = Ok(Candidates(t)[1])

\* C4 (empty-result handling): when get_lat_long has missed and the geocoding
\* call answers with an empty results vector, the call returns the error
\* "No results found" in that step, cities is unchanged by it, and the call
\* has attempted no INSERT.
EmptyResultHandling ==
    [][\A t \in Tasks :
          ( /\ Resolving(t)
            /\ pc[t] = "fetch"
            /\ Stepped(t)
            /\ geo'[t] = Some(Ok([results |-> <<>>])) )
          => /\ pc'[t] = "done"
             /\ result'[t] = Err(NoResults)
             /\ trace'[t] = <<"select_miss", "get_ok">>
             /\ cities' = cities
             /\ SelectLatLong(cities', name[t]) = SelectLatLong(cities, name[t])]_vars

\* a call returned "No results found" and its name is still absent from cities
EmptyResultReturned ==
    \E t \in Tasks :
        /\ Resolving(t)
        /\ pc[t] = "done"
        /\ geo[t] = Some(Ok([results |-> <<>>]))
        /\ result[t] = Err(NoResults)
        /\ InsertAttempts(t) = 0
        /\ SelectLatLong(cities, name[t]) = {None}

\* C5 (/weather resolves through the Store), as the specification states it:
\* the first thing a /weather request does is the Store lookup of Resolve, a
\* request whose lookup hits makes no geocoding call, and a request that
\* succeeded leaves a row for its name in cities.
WeatherResolvesThroughStore ==
    \A t \in Tasks :
        (Serving(t) /\ trace[t] # <<>>) =>
            /\ trace[t][1] \in {"select_hit", "select_miss", "select_err"}
            /\ trace[t][1] = "select_hit" => ProviderCalls(t) = 0
            /\ (pc[t] = "done" /\ result[t].ok) => RowsNamed(cities, name[t]) # {}

\* C6 (re-resolution on persistent write failure), as the specification states
\* it: while every INSERT for a name has failed (two or more so far, and the
\* name has no row), each get_lat_long call for it that received a coordinate
\* from a fresh geocoding call has succeeded.
NeverPoisoned ==
    \A t \in Tasks :
        ( /\ Resolving(t)
          /\ pc[t] = "done"
          /\ insert_failures[name[t]] >= 2
          /\ RowsNamed(cities, name[t]) = {}
          /\ trace[t] # <<"select_err">> )
        => /\ ProviderCalls(t) = 1
           /\ GotCandidates(t) => result[t] = Ok(Candidates(t)[1])

\* C7 (fail closed on Store lookup failure): a get_lat_long call whose SELECT
\* failed has returned the database error, and the SELECT is all it did: no
\* geocoding call, no INSERT.
FailClosedOnLookupFailure ==
    \A t \in Tasks :
        (Resolving(t) /\ trace[t] # <<>> /\ trace[t][1] = "select_err") =>
            /\ pc[t] = "done"
            /\ result[t] = Err(SqlxError)
            /\ trace[t] = <<"select_err">>
            /\ geo[t] = None
            /\ ProviderCalls(t) = 0
            /\ InsertAttempts(t) = 0

\* a call returned the database error of its SELECT
LookupFailureReturned ==
    \E t \in Tasks :
        /\ Resolving(t)
        /\ pc[t] = "done"
        /\ trace[t] = <<"select_err">>
        /\ result[t] = Err(SqlxError)

\* C8 (provider failure leaves no partial state): when get_lat_long has missed
\* and the geocoding call fails, the call returns the reqwest error in that
\* step, cities is unchanged by it, and the call has attempted no INSERT.
ProviderFailureNoPartialState ==
    [][\A t \in Tasks :
          ( /\ Resolving(t)
            /\ pc[t] = "fetch"
            /\ Stepped(t)
            /\ geo'[t] = Some(Err(ReqwestError)) )
          => /\ pc'[t] = "done"
             /\ result'[t] = Err(ReqwestError)
             /\ trace'[t] = <<"select_miss", "get_err">>
             /\ cities' = cities]_vars

\* a call returned the geocoding error and its name is still absent from cities
ProviderFailureReturned ==
    \E t \in Tasks :
        /\ Resolving(t)
        /\ pc[t] = "done"
        /\ geo[t] = Some(Err(ReqwestError))
        /\ result[t] = Err(ReqwestError)
        /\ InsertAttempts(t) = 0
        /\ RowsNamed(cities, name[t]) = {}

\* C9 (write count per call): a returned get_lat_long call that missed and
\* received a coordinate has executed exactly one INSERT; a call that hit, or
\* whose geocoding call failed or returned no result (or whose SELECT failed),
\* has executed none.  Every step of a call leaves the rows of cities in place
\* and adds exactly one row (the call's name and coordinate) when it is a
\* successful INSERT, and none otherwise.
WriteCountPerCall ==
    /\ [](\A t \in Tasks :
            (Resolving(t) /\ pc[t] = "done") =>
                InsertAttempts(t) =
                    IF trace[t][1] = "select_miss" /\ GotCandidates(t) THEN 1 ELSE 0)
    /\ [][\A t \in Tasks :
            (Resolving(t) /\ Stepped(t)) =>
                cities' = IF LastOp(t) = "insert_ok"
                          THEN Append(cities, [name |-> name[t], lat_long |-> result'[t].val])
                          ELSE cities]_vars

\* one call wrote its row and another call, a hit on it, wrote nothing
OneWriteThenNone ==
    \E t, u \in Tasks :
        /\ Resolving(t) /\ Resolving(u)
        /\ pc[t] = "done" /\ pc[u] = "done"
        /\ name[t] = name[u]
        /\ InsertAttempts(t) = 1
        /\ trace[t][3] = "insert_ok"
        /\ trace[u] = <<"select_hit">>
        /\ Cardinality(RowsNamed(cities, name[t])) = 1

\* C10 (check-then-act race): nothing orders one call's SELECT..INSERT against
\* another's.  A call at its SELECT for a name without a row can observe the
\* miss, a call at its geocoding step can receive a coordinate, and a call at
\* its INSERT can insert, each whatever the position of any other call for the
\* same name.
CheckThenActUnguarded ==
    \A t \in Tasks :
        /\ (pc[t] = "select" /\ RowsNamed(cities, name[t]) = {}) =>
              ENABLED (SelectDone(t) /\ pc'[t] = "fetch")
        /\ pc[t] = "fetch" => ENABLED (FetchDone(t) /\ pc'[t] = "insert")
        /\ pc[t] = "insert" => ENABLED InsertDone(t)

\* two calls for one name, absent at first, both missed, both called the
\* provider and both inserted: the name now has two rows
BothMissedBothInserted ==
    \E t, u \in Tasks :
        /\ t # u
        /\ Resolving(t) /\ Resolving(u)
        /\ name[t] = name[u]
        /\ \A x \in {t, u} :
             /\ pc[x] = "done"
             /\ trace[x] = <<"select_miss", "get_ok", "insert_ok">>
        /\ Cardinality(RowsNamed(cities, name[t])) = 2

\* C11 (ListRecent), as the specification states it: the names a successful
\* get_last_cities returned are at most the limit, newest first, and all
\* distinct.
RecentDistinctNewestFirst ==
    [][\A t \in Tasks :
          (Listing(t) /\ Stepped(t) /\ LastOp(t) = "list_ok") =>
              LET names == result'[t].val.cities
              IN /\ Len(names) <= StatsLimit
                 /\ \A i \in DOMAIN names : names[i] = cities[Len(cities) + 1 - i].name
                 /\ \A i, j \in DOMAIN names : names[i] = names[j] => i = j]_vars

\* C11, amended: get_last_cities takes no limit; it returns the name of each of
\* the min(10, number of rows) most recently inserted rows, newest first, one
\* entry per row, so that a name occurs as often as those rows carry it and the
\* names are distinct when those rows have distinct names.
RecentNewestFirst ==
    [][\A t \in Tasks :
          (Listing(t) /\ Stepped(t) /\ LastOp(t) = "list_ok") =>
              LET names == result'[t].val.cities
              IN /\ Len(names) = Min(Len(cities), StatsLimit)
                 /\ \A i \in DOMAIN names : names[i] = cities[Len(cities) + 1 - i].name
                 /\ (\A i, j \in DOMAIN names :
                        cities[Len(cities) + 1 - i].name = cities[Len(cities) + 1 - j].name => i = j)
                    => (\A i, j \in DOMAIN names : names[i] = names[j] => i = j)
                 /\ cities' = cities]_vars

\* a /stats request listed exactly 10 of 12 rows, the row a get_lat_long call
\* had just inserted first
LimitReachedNewestFirst ==
    \E t, u \in Tasks :
        /\ Listing(t) /\ pc[t] = "done" /\ result[t].ok
        /\ Resolving(u) /\ pc[u] = "done" /\ trace[u] = <<"select_miss", "get_ok", "insert_ok">>
        /\ Len(cities) = StatsLimit + 2
        /\ Len(result[t].val.cities) = StatsLimit
        /\ result[t].val.cities[1] = name[u]
        /\ result[t].val.cities[2] = "c11"
        /\ result[t].val.cities[StatsLimit] = "c03"

\* C12 (/stats access control), as the specification states it: a /stats
\* request gets past the extractor if and only if its Authorization header is
\* "Basic " followed by the base64 text of forecast:forecast; every other
\* request is answered 401 with a WWW-Authenticate: Basic challenge without any
\* read of cities, and an authorized one renders the last cities.
StatsAccessControl ==
    \A t \in Tasks :
        (Listing(t) /\ pc[t] # "idle") =>
            IF auth[t] = Some(<<Basic, Base64Of("forecast:forecast")>>)
            THEN \/ pc[t] = "stats_select"
                 \/ /\ pc[t] = "done"
                    /\ trace[t] \in {<<"list_ok">>, <<"list_err">>}
                    /\ result[t].ok => response[t].val.body[2].cities = result[t].val.cities
            ELSE /\ pc[t] = "done"
                 /\ trace[t] = <<>>
                 /\ response[t].val.status = UNAUTHORIZED
                 /\ \E hd \in response[t].val.headers :
                        /\ hd[1] = "WWW-Authenticate"
                        /\ hd[2] = "Basic realm=\"Please enter your credentials\""

\* C13 (HTTP outcome of /weather): a /weather request is answered 200 with the
\* rendered forecast exactly when fetch_lat_long returned a coordinate and
\* fetch_weather returned a forecast; every failure of either ("No results
\* found", a failed geocoding request, a failed forecast request) is answered
\* with status 500, no extra header and a body starting "Something went
\* wrong: ", the status not depending on the kind of error.
WeatherHttpOutcome ==
    \A t \in Tasks :
        (Serving(t) /\ pc[t] = "done") =>
            /\ response[t].some
            /\ response[t].val.status = 200 <=> trace[t] = <<"get_ok", "forecast_ok">>
            /\ response[t].val.status = 200 =>
                 /\ result[t].ok
                 /\ response[t].val.body = <<"rendered", result[t].val>>
                 /\ result[t].val.city = name[t]
            /\ response[t].val.status # 200 =>
                 /\ ~result[t].ok
                 /\ result[t].err \in {NoResults, ReqwestError}
                 /\ response[t].val.status = INTERNAL_SERVER_ERROR
                 /\ response[t].val.headers = {}
                 /\ response[t].val.body = <<"Something went wrong: ", result[t].err>>

\* one /weather request was answered 200 and another, which found no results,
\* 500
WeatherOkAndNotFound ==
    \E t, u \in Tasks :
        /\ Serving(t) /\ Serving(u)
        /\ pc[t] = "done" /\ pc[u] = "done"
        /\ response[t].val.status = 200
        /\ Len(response[t].val.body[2].forecasts) = 1
        /\ result[u] = Err(NoResults)
        /\ response[u].val.status = INTERNAL_SERVER_ERROR

\* C14 (uniqueness under sequential use): when no two calls overlap and cities
\* starts with at most one row per name, cities holds at most one row per name
\* whatever the outcomes of the calls.
UniquePerNameSequentially ==
    \A n \in Names : Cardinality(RowsNamed(cities, n)) <= 1

\* a call failed at its INSERT, the next call for the same name inserted, and
\* the name has one row
InsertedOnceAfterFailure ==
    \E t \in Tasks :
        /\ Resolving(t)
        /\ pc[t] = "done"
        /\ trace[t] = <<"select_miss", "get_ok", "insert_ok">>
        /\ insert_failures[name[t]] = 1
        /\ Cardinality(RowsNamed(cities, name[t])) = 1
        /\ calls = 2

\* C15 (append-only Store): every step of the system leaves cities as it is or
\* appends exactly one row to it; no row is removed and no row's name or
\* coordinate changes.
AppendOnly ==
    [][\/ cities' = cities
       \/ /\ Len(cities') = Len(cities) + 1
          /\ SubSeq(cities', 1, Len(cities)) = cities]_vars

\* a get_lat_long call appended a row to a table that had one, and a handler
\* has run as well
RowAppendedHandlerRan ==
    \E t, u \in Tasks :
        /\ Resolving(t) /\ pc[t] = "done" /\ trace[t] = <<"select_miss", "get_ok", "insert_ok">>
        /\ (Serving(u) \/ Listing(u)) /\ pc[u] = "done" /\ result[u].ok
        /\ Len(cities) = 2
        /\ cities[1].name = "A"
        /\ cities[2] = [name |-> name[t], lat_long |-> result[t].val]

\* C16 (no retries): a call performs its SELECT, its geocoding request, its
\* INSERT, its forecast request and its listing at most once each, and a failed
\* geocoding request is the last thing the call does: it has returned that
\* error.
NoRetries ==
    \A t \in Tasks :
        /\ Ops(t, {"select_hit", "select_miss", "select_err"}) <= 1
        /\ ProviderCalls(t) <= 1
        /\ InsertAttempts(t) <= 1
        /\ Ops(t, {"forecast_ok", "forecast_err"}) <= 1
        /\ Ops(t, {"list_ok", "list_err"}) <= 1
        /\ Ops(t, {"get_err"}) >= 1 =>
             /\ pc[t] = "done"
             /\ trace[t][Len(trace[t])] = "get_err"
             /\ result[t] = Err(ReqwestError)

\* a get_lat_long call and a /weather request each failed on their single
\* geocoding request
BothFailedOnFirstAttempt ==
    \E t, u \in Tasks :
        /\ Resolving(t) /\ pc[t] = "done" /\ trace[t] = <<"select_miss", "get_err">>
        /\ Serving(u) /\ pc[u] = "done" /\ trace[u] = <<"get_err">>
        /\ result[t] = Err(ReqwestError)
        /\ result[u] = Err(ReqwestError)

\* C17 (distinct error kinds): the error a get_lat_long call returns tells why
\* it failed: "No results found" exactly when the geocoding request succeeded
\* with an empty results vector, the reqwest error exactly when the request
\* itself failed, the sqlx error exactly when the SELECT or the INSERT failed.
DistinctErrorKinds ==
    \A t \in Tasks :
        (Resolving(t) /\ pc[t] = "done" /\ ~result[t].ok) =>
            /\ result[t].err = NoResults <=> geo[t] = Some(Ok([results |-> <<>>]))
            /\ result[t].err = ReqwestError <=> geo[t] = Some(Err(ReqwestError))
            /\ result[t].err = SqlxError <=>
                 (trace[t] = <<"select_err">> \/ Ops(t, {"insert_err"}) = 1)
            /\ result[t].err \in {NoResults, ReqwestError, SqlxError}

\* of two calls for one name, one found no results and the other failed at the
\* provider, and the errors they returned differ
NotFoundAndUnavailable ==
    \E t, u \in Tasks :
        /\ Resolving(t) /\ Resolving(u)
        /\ pc[t] = "done" /\ pc[u] = "done"
        /\ name[t] = name[u]
        /\ result[t] = Err(NoResults)
        /\ result[u] = Err(ReqwestError)
        /\ result[t] # result[u]

\* C18 (no negative caching): a get_lat_long call that returns the error of
\* its SELECT, of the geocoding request or "No results found" leaves cities as
\* it was; and a call for a name for which such an error was returned before
\* is treated like any other: when its SELECT finds no row it goes on to the
\* provider, when the provider returns candidates it goes on to insert the
\* first, and when the INSERT succeeds it returns Ok of that coordinate.
NoNegativeCaching ==
    [][\A t \in Tasks :
          (Resolving(t) /\ Stepped(t)) =>
              /\ (pc'[t] = "done" /\ LastOp(t) \in {"select_err", "get_err", "get_ok"}) =>
                    /\ cities' = cities
                    /\ insert_failures' = insert_failures
              /\ name[t] \in failed =>
                    /\ (pc[t] = "select" /\ LastOp(t) # "select_err" /\ RowsNamed(cities, name[t]) = {}) =>
                          (pc'[t] = "fetch" /\ result'[t] = Pending)
                    /\ (pc[t] = "fetch" /\ geo'[t].val.ok /\ Len(geo'[t].val.val.results) >= 1) =>
                          (pc'[t] = "insert" /\ lat_long'[t] = Some(geo'[t].val.val.results[1]))
                    /\ (pc[t] = "insert" /\ LastOp(t) = "insert_ok") =>
                          (pc'[t] = "done" /\ result'[t] = Ok(geo[t].val.val.results[1]))]_vars

\* the only task that ran made two calls for one name: the first returned an
\* error and left no row, the second returned Ok of the provider's coordinate
SucceededAfterFailure ==
    \E t, u \in Tasks :
        /\ t # u
        /\ op[u] = "none"
        /\ calls = 2
        /\ Resolving(t)
        /\ pc[t] = "done"
        /\ failed = {name[t]}
        /\ insert_failures[name[t]] = 0
        /\ trace[t] = <<"select_miss", "get_ok", "insert_ok">>
        /\ result[t] = Ok(Candidates(t)[1])

\* C19 (permanence), as the specification states it: once a get_lat_long call
\* has returned after inserting coordinate c for a name, c is what every lookup
\* of that name returns.
PermanentlyThatCoordinate ==
    \A u \in Tasks :
        ( /\ Resolving(u)
          /\ pc[u] = "done"
          /\ trace[u] = <<"select_miss", "get_ok", "insert_ok">> )
        => SelectLatLong(cities, name[u]) = {Some(result[u].val)}

\* C19, amended: once a get_lat_long call has returned after inserting c for a
\* name, the row stays, and every later call for that name whose SELECT does
\* not fail returns at once, without a geocoding request, Ok of a coordinate
\* stored for the name: c itself when c is the only coordinate stored for it
\* (as it is when no overlapping call inserted another), else c or the
\* coordinate of such an overlapping insert.
PermanentEntry ==
    /\ [](\A u \in Tasks :
            (Resolving(u) /\ pc[u] = "done" /\ trace[u] = <<"select_miss", "get_ok", "insert_ok">>)
            => result[u].val \in StoredFor(cities, name[u]))
    /\ [][\A t, u \in Tasks :
            ( /\ Resolving(u)
              /\ pc[u] = "done"
              /\ trace[u] = <<"select_miss", "get_ok", "insert_ok">>
              /\ Resolving(t)
              /\ name[t] = name[u]
              /\ pc[t] = "select"
              /\ Stepped(t)
              /\ LastOp(t) # "select_err" )
            => /\ pc'[t] = "done"
               /\ trace'[t] = <<"select_hit">>
               /\ result'[t].ok
               /\ result'[t].val \in StoredFor(cities, name[t])
               /\ StoredFor(cities, name[t]) = {result[u].val} => result'[t] = result[u]
               /\ cities' = cities]_vars

\* after one call inserted c for a name, a later call for it returned c from
\* the table; the name has that one row
InsertedThenServedFromStore ==
    \E t, u \in Tasks :
        /\ t # u
        /\ Resolving(t) /\ Resolving(u)
        /\ name[t] = name[u]
        /\ pc[u] = "done"
        /\ trace[u] = <<"select_miss", "get_ok", "insert_ok">>
        /\ pc[t] = "done"
        /\ trace[t] = <<"select_hit">>
        /\ geo[t] = None
        /\ result[t] = result[u]
        /\ StoredFor(cities, name[t]) = {result[u].val}

====
